---- MODULE Spec2Model ----
(***************************************************************************)
(* The expert panel chatbot of harukaeru/expert_ai: a question is put to   *)
(* every registered expert (one model call each), the opinions are         *)
(* formatted in registry order and merged by one further model call.       *)
(*                                                                         *)
(* Three of the repository's variants are modelled, selected by `variant`: *)
(*   1  chatbot.py   fixed registry, sequential collection, no UI          *)
(*   3  chatbot3.py  editable registry, asyncio.gather collection          *)
(*   4  chatbot4.py  editable registry with display fields, sequential     *)
(*                   collection in main, transcript with expert messages   *)
(* (chatbot2.py orchestrates exactly as chatbot.py does.)                  *)
(*                                                                         *)
(* A python dict is a sequence of entries with distinct ids, in insertion  *)
(* order.  A model call is opaque: its text is represented by the call     *)
(* that produced it, and it may fail.                                      *)
(***************************************************************************)
EXTENDS Integers, Sequences, FiniteSets, TLC

\* ---------------------------------------------------------------- bounds
NumIds == 3
SeedSize == 2
MaxRequests == 1
MaxMutations == 1

\* ---------------------------------------------------------------- values
IdNames == <<"a", "b", "c", "d", "e", "f">>
ExpertIds == {IdNames[i] : i \in 1..NumIds}
Descs == {"d1", "d2"}
Names == {"n1"}
Avatars == {"av1"}
\* A dict key that is not there.
Absent == "absent"
\* A JSON value that is not a string (a number, a list, ...).
WrongType == "wrongtype"
\* The text inputs of the UI: "" is the empty input.
Questions == {"", "q"}
NoResponse == [kind |-> "none"]
NoFile == [parses |-> FALSE, pairs |-> <<>>]
NoImport == [status |-> "none", file |-> NoFile, changed |-> FALSE]
NoEdit == [op |-> "none", id |-> Absent]

Variants == {1, 3, 4}

\* chatbot4's model settings.  Temperatures are counted in tenths, the step
\* of the slider; a JSON value that is no number, and a key that is not
\* there, are values of their own.
AvailableModels == <<"gpt-4o-mini", "gpt-4o">>
SliderMin == 0
SliderMax == 20
Temperature(n) == [kind |-> "number", tenths |-> n]
NotANumber == [kind |-> "other"]
NoTemperature == [kind |-> "absent"]
DefaultConfig == [model_name |-> "gpt-4o-mini", temperature |-> Temperature(7)]
NoConfigFile ==
    [parses |-> FALSE,
     config |-> [model_name |-> Absent, temperature |-> NoTemperature]]
NoConfigImport == [status |-> "none", file |-> NoConfigFile, changed |-> FALSE]

\* str.upper() on the identifiers of the model.
upper(s) ==
    CASE s = "a" -> "A" [] s = "b" -> "B" [] s = "c" -> "C"
      [] s = "d" -> "D" [] s = "e" -> "E" [] s = "f" -> "F"
      [] OTHER -> s

\* ---------------------------------------------------------- python dicts
Entry(id, description, name, avatar) ==
    [id |-> id, description |-> description, name |-> name, avatar |-> avatar]

keys(d) == [i \in 1..Len(d) |-> d[i].id]

HasKey(d, id) == \E i \in 1..Len(d) : d[i].id = id

IndexOf(d, id) == CHOOSE i \in 1..Len(d) : d[i].id = id

\* An assignment that removes the key and inserts it again
\* (d.pop(id, None); d[id] = e): an existing key moves to the end.
DictSet_reinsert(d, e) == Append(SelectSeq(d, LAMBDA x : x.id # e.id), e)

\* d[id] = e: an existing key keeps its position, a new key goes last.
DictSet(d, e) ==
    IF HasKey(d, e.id)
    THEN [d EXCEPT ![IndexOf(d, e.id)] = e]
    ELSE Append(d, e)

\* del d[id]
DictDel(d, id) ==
    LET k == IndexOf(d, id)
    IN  [i \in 1..(Len(d) - 1) |-> IF i < k THEN d[i] ELSE d[i + 1]]

\* json.load of an object: the pairs are inserted one after the other, so a
\* repeated key keeps its first position and its last value.
RECURSIVE json_load(_)
json_load(pairs) ==
    IF pairs = <<>> THEN <<>>
    ELSE DictSet(json_load(SubSeq(pairs, 1, Len(pairs) - 1)), pairs[Len(pairs)])

\* An export of the id -> description dict the chatbot keeps for its prompts
\* (chatbot4.py:16) in place of the registry.
json_dumps_descriptions_only(d) ==
    [parses |-> TRUE,
     pairs |-> [i \in 1..Len(d) |->
                  [id |-> d[i].id, description |-> d[i].description,
                   name |-> "absent", avatar |-> "absent"]]]

\* json.dumps of a dict: a JSON object with one pair for every item, in
\* iteration order, each value with the fields it has.
json_dumps(d) == [parses |-> TRUE, pairs |-> [i \in 1..Len(d) |-> d[i]]]

\* The registry a session starts with.
SeedExperts(v) ==
    [i \in 1..SeedSize |->
        IF v = 4 THEN Entry(IdNames[i], "d1", "n1", "av1")
        ELSE Entry(IdNames[i], "d1", Absent, Absent)]

\* chatbot4 reads expert_info['name'], ['avatar'] and ['description'] of every
\* entry it renders; chatbot3 renders the value itself, whatever it is.
Renders(v, e) ==
    v = 4 => (e.name # Absent /\ e.avatar # Absent /\ e.description # Absent)

\* ------------------------------------------------------------ model calls
\* The text an expert call returns, named by the call that produced it.
Opinion(id, desc) == [kind |-> "opinion", expert |-> id, role |-> desc]

\* The text the synthesis call returns for a block of opinions.
Summary(q, block) == [kind |-> "summary", question |-> q, opinions |-> block]

\* "\n\n".join(f"{expert_id.upper()}の意見:\n{opinion}" for ... in items())
format_opinions(expert_opinions) ==
    [i \in 1..Len(expert_opinions) |->
        [head |-> upper(expert_opinions[i].id),
         body |-> expert_opinions[i].opinion]]

VARIABLES
    variant,            \* which program runs
    experts,            \* st.session_state.experts (variant 1: self.experts)
    messages,           \* st.session_state.messages, the transcript
    pc,                 \* where the current request stands
    error,              \* what the request reported or raised
    question,           \* the request's question
    aliased,            \* chatbot.experts is the registry object itself
    chatbot_experts,    \* chatbot.experts when it is an object of its own
    tasks,              \* the expert calls of the request, in creation order
    calls,              \* each call's state
    results,            \* each call's returned text
    expert_opinions,    \* the request's id -> opinion dict
    formatted_opinions, \* the block handed to the synthesis call
    summary_call,       \* the synthesis call's state
    final_response,     \* the synthesis call's text
    progress,           \* expert ids written to the progress placeholder
    nInvoke,            \* model calls started by the request
    reqExperts,         \* the registry as it was when the request started
    last_import,        \* the last file given to the registry import
    last_edit,          \* the last registry edit: which button, which expert
    model_config,       \* st.session_state.model_config (chatbot4)
    last_config_import, \* the last file given to the model settings import
    nReq,               \* requests made
    nMut                \* edits made to the registry or the model settings

vars == <<variant, experts, messages, pc, error, question, aliased,
          chatbot_experts, tasks, calls, results, expert_opinions,
          formatted_opinions, summary_call, final_response, progress,
          nInvoke, reqExperts, last_import, last_edit, model_config,
          last_config_import, nReq, nMut>>

config_vars == <<model_config, last_config_import>>

request_vars == <<pc, error, question, aliased, chatbot_experts, tasks, calls,
                  results, expert_opinions, formatted_opinions, summary_call,
                  final_response, progress, nInvoke, reqExperts, nReq>>

Init ==
    /\ variant \in Variants
    /\ experts = SeedExperts(variant)
    /\ messages = <<>>
    /\ pc = "idle"
    /\ error = "none"
    /\ question = ""
    /\ aliased = FALSE
    /\ chatbot_experts = <<>>
    /\ tasks = <<>>
    /\ calls = <<>>
    /\ results = <<>>
    /\ expert_opinions = <<>>
    /\ formatted_opinions = <<>>
    /\ summary_call = "none"
    /\ final_response = NoResponse
    /\ progress = <<>>
    /\ nInvoke = 0
    /\ reqExperts = <<>>
    /\ last_import = NoImport
    /\ last_edit = NoEdit
    /\ model_config = DefaultConfig
    /\ last_config_import = NoConfigImport
    /\ nReq = 0
    /\ nMut = 0

InFlight == pc \in {"collecting", "synthesizing"}

\* self.experts of the chatbot of the current request.
SelfExperts == IF aliased THEN experts ELSE chatbot_experts

\* ------------------------------------------------- model settings (chatbot4)
Elems(s) == {s[i] : i \in 1..Len(s)}

\* st.slider(min_value=0.0, max_value=2.0, value=...) raises for a value that
\* is no number between its limits.
slider_accepts(t) ==
    t.kind = "number" /\ SliderMin <= t.tenths /\ t.tenths <= SliderMax

\* model_config_manager builds the selectbox with
\* available_models.index(model_name), which raises ValueError for a name
\* that is not in the list, and then the slider.
config_widgets_render(cfg) ==
    cfg.model_name \in Elems(AvailableModels) /\ slider_accepts(cfg.temperature)

\* The positions the user leaves the slider at.
SliderValues == {Temperature(SliderMin), Temperature(7), Temperature(SliderMax)}

ConfigEditable ==
    /\ variant = 4
    /\ ~InFlight
    /\ nMut < MaxMutations
    /\ config_widgets_render(model_config)

\* if selected_model != config["model_name"] or temperature != config[...]:
\* both keys of the dict are assigned.
model_config_manager_select(m, t) ==
    /\ ConfigEditable
    /\ m # model_config.model_name \/ t # model_config.temperature
    /\ model_config' = [model_config EXCEPT !.model_name = m, !.temperature = t]
    /\ nMut' = nMut + 1
    /\ UNCHANGED <<variant, experts, messages, last_import, last_edit,
                   last_config_import, request_vars>>

\* The files offered to the model settings import: one that is not JSON, and
\* JSON objects whose model name is supported, unsupported or missing and
\* whose temperature is in range, out of range, no number or missing.
ConfigFiles ==
    {NoConfigFile}
    \cup {[parses |-> TRUE, config |-> [model_name |-> m, temperature |-> t]] :
            m \in {"gpt-4o", "gpt-5", Absent},
            t \in {Temperature(15), Temperature(SliderMax + 1),
                   Temperature(SliderMin - 1), NotANumber, NoTemperature}}

\* if "model_name" in imported_config and "temperature" in imported_config
has_both_keys(cfg) == cfg.model_name # Absent /\ cfg.temperature # NoTemperature

config_import_status(file) ==
    IF ~file.parses THEN "error"
    ELSE IF has_both_keys(file.config) THEN "success"
    ELSE "invalid"

import_config(file, old) ==
    IF config_import_status(file) = "success" THEN file.config ELSE old

model_config_manager_import(file) ==
    /\ ConfigEditable
    /\ model_config' = import_config(file, model_config)
    /\ last_config_import' =
          [status |-> config_import_status(file),
           file |-> file,
           changed |-> import_config(file, model_config) # model_config]
    /\ nMut' = nMut + 1
    /\ UNCHANGED <<variant, experts, messages, last_import, last_edit,
                   request_vars>>

ConfigEdit ==
    \/ \E m \in Elems(AvailableModels), t \in SliderValues :
            model_config_manager_select(m, t)
    \/ \E file \in ConfigFiles : model_config_manager_import(file)

\* ------------------------------------------------------- registry editing
\* if new_expert_id and new_expert_desc (chatbot4: and name and avatar)
add_accepts(v, id, desc, name, avatar) ==
    IF v = 4 THEN id # "" /\ name # "" /\ avatar # "" /\ desc # ""
    ELSE id # "" /\ desc # ""

\* The management loop reaches entry k only if rendering the entries before
\* it, and entry k itself, raised nothing.
Reached(k) == \A j \in 1..k : Renders(variant, experts[j])

\* The import widget comes after the management loop.
ImportReached == Reached(Len(experts))

\* chatbot4 builds the model settings tab before the experts tab.
Editable ==
    /\ variant \in {3, 4}
    /\ nMut < MaxMutations
    /\ variant = 4 => config_widgets_render(model_config)

expert_manager_add(id, desc, name, avatar) ==
    /\ Editable
    /\ add_accepts(variant, id, desc, name, avatar)
    /\ experts' = DictSet(experts,
                     IF variant = 4 THEN Entry(id, desc, name, avatar)
                     ELSE Entry(id, desc, Absent, Absent))
    /\ last_edit' = [op |-> "add", id |-> id]
    /\ nMut' = nMut + 1
    /\ UNCHANGED <<variant, messages, last_import, request_vars, config_vars>>

expert_manager_update(k, desc, name, avatar) ==
    /\ Editable
    /\ k \in 1..Len(experts)
    /\ Reached(k)
    /\ experts' = DictSet(experts,
                     IF variant = 4 THEN Entry(experts[k].id, desc, name, avatar)
                     ELSE Entry(experts[k].id, desc, Absent, Absent))
    /\ last_edit' = [op |-> "update", id |-> experts[k].id]
    /\ nMut' = nMut + 1
    /\ UNCHANGED <<variant, messages, last_import, request_vars, config_vars>>

expert_manager_delete(k) ==
    /\ Editable
    /\ k \in 1..Len(experts)
    /\ Reached(k)
    /\ experts' = DictDel(experts, experts[k].id)
    /\ last_edit' = [op |-> "delete", id |-> experts[k].id]
    /\ nMut' = nMut + 1
    /\ UNCHANGED <<variant, messages, last_import, request_vars, config_vars>>

\* The files offered to the import: one that is not JSON, and JSON objects
\* of up to two pairs whose values may lack the description or have it of
\* the wrong type; a key may be repeated.
ImportIds == {IdNames[1], IdNames[NumIds]}

ImportEntry(v, id, d) ==
    Entry(id, d, IF v = 4 THEN "n1" ELSE Absent, IF v = 4 THEN "av1" ELSE Absent)

ImportEntries(v) ==
    {ImportEntry(v, id, d) :
        id \in ImportIds,
        d \in IF v = 4 THEN {"d2", Absent, WrongType} ELSE {"d2", WrongType}}

ImportFiles(v) ==
    {NoFile}
    \cup {[parses |-> TRUE, pairs |-> p] :
            p \in {<<>>} \cup {<<x>> : x \in ImportEntries(v)}
                        \cup {<<ImportEntry(v, IdNames[1], "d1"), y>> :
                                y \in ImportEntries(v)}}

\* try: imported = json.load(f); st.session_state.experts = imported
\* except Exception: st.error(...)
\* The assignment binds the session to a new dict: a chatbot that holds the
\* old one keeps it.
import_experts(file, old) ==
    IF file.parses THEN json_load(file.pairs) ELSE old

expert_manager_import(file) ==
    /\ Editable
    /\ ImportReached
    /\ experts' = import_experts(file, experts)
    /\ last_import' = [status |-> IF file.parses THEN "success" ELSE "error",
                       file |-> file,
                       changed |-> import_experts(file, experts) # experts]
    /\ IF file.parses /\ aliased
       THEN aliased' = FALSE /\ chatbot_experts' = experts
       ELSE UNCHANGED <<aliased, chatbot_experts>>
    /\ last_edit' = [op |-> "import", id |-> Absent]
    /\ nMut' = nMut + 1
    /\ UNCHANGED <<variant, messages, pc, error, question, tasks, calls, results,
                   expert_opinions, formatted_opinions, summary_call,
                   final_response, progress, nInvoke, reqExperts, nReq,
                   config_vars>>

\* The user downloads export_data, which every run computes from the registry
\* it has then, and gives that file to the import.
expert_manager_export_import ==
    /\ variant \in {3, 4}
    /\ variant = 4 => config_widgets_render(model_config)
    /\ ImportReached
    /\ LET file == json_dumps(experts)
       IN  /\ experts' = import_experts(file, experts)
           /\ last_import' =
                 [status |-> IF file.parses THEN "success" ELSE "error",
                  file |-> file,
                  changed |-> import_experts(file, experts) # experts]
           /\ IF file.parses /\ aliased
              THEN aliased' = FALSE /\ chatbot_experts' = experts
              ELSE UNCHANGED <<aliased, chatbot_experts>>
    /\ UNCHANGED <<variant, messages, pc, error, question, tasks, calls, results,
                   expert_opinions, formatted_opinions, summary_call,
                   final_response, progress, nInvoke, reqExperts, nReq,
                   last_edit, nMut, config_vars>>

Edit ==
    \/ \E id \in ExpertIds \cup {""}, desc \in Descs \cup {""},
          name \in Names \cup {""}, avatar \in Avatars \cup {""} :
            expert_manager_add(id, desc, name, avatar)
    \/ \E k \in 1..NumIds, desc \in Descs, name \in Names, avatar \in Avatars :
            expert_manager_update(k, desc, name, avatar)
    \/ \E k \in 1..NumIds : expert_manager_delete(k)
    \/ \E file \in ImportFiles(variant) : expert_manager_import(file)

\* ------------------------------------------------------------ the request
Message(role, expert_id, content) ==
    [role |-> role, expert_id |-> expert_id, content |-> content]

Question(q) == [kind |-> "question", text |-> q]

\* A main without the registry check.
registry_is_empty_unchecked(reg) == FALSE

\* if not st.session_state.experts
registry_is_empty(reg) == reg = <<>>

\* chatbot4 re-renders the transcript on every run and looks each expert
\* message's expert up in the registry by its id.
transcript_renders(v, msgs, reg) ==
    v = 4 => \A k \in 1..Len(msgs) :
                msgs[k].role = "expert" => HasKey(reg, msgs[k].expert_id)

\* What a run of main does with a chat input, up to the first model call.
\* chatbot.py has no input checks: its request is the method call itself.
main_outcome(v, key, q, reg, msgs) ==
    IF v = 1 THEN "ok"
    ELSE IF \E j \in 1..Len(reg) : ~Renders(v, reg[j]) THEN "render_error"
    ELSE IF ~transcript_renders(v, msgs, reg) THEN "transcript_key_error"
    ELSE IF q = "" THEN "no_input"
    ELSE IF ~key THEN "no_api_key"
    ELSE IF registry_is_empty(reg) THEN "empty_panel"
    ELSE "ok"

\* A collection that awaits each call before it makes the next, in every
\* variant.
start_calls_one_by_one(v, n) ==
    [i \in 1..n |-> IF i = 1 THEN "outstanding" ELSE "pending"]

\* The expert calls a request starts before it first waits: asyncio.gather
\* schedules every coroutine at once, the for loops of chatbot.py and of
\* chatbot4's main await the first call before they make the second.
start_calls(v, n) ==
    [i \in 1..n |-> IF v = 3 \/ i = 1 THEN "outstanding" ELSE "pending"]

Outstanding(c) == {i \in 1..Len(c) : c[i] = "outstanding"}

\* The coroutine arguments, bound when each coroutine is created.
make_tasks(reg) ==
    [i \in 1..Len(reg) |-> [id |-> reg[i].id, desc |-> reg[i].description]]

\* chatbot4's main calls model_config_manager() before anything else that
\* can raise.
run_outcome(key, q) ==
    IF variant = 4 /\ ~config_widgets_render(model_config) THEN "config_error"
    ELSE main_outcome(variant, key, q, experts, messages)

ask(key, q) ==
    /\ ~InFlight
    /\ run_outcome(key, q) = "ok" => nReq < MaxRequests
    /\ LET out == run_outcome(key, q)
           n == Len(experts)
           direct == out = "ok" /\ n = 0 /\ variant # 3
       IN  /\ question' = q
           /\ reqExperts' = experts
           /\ error' = IF out \in {"ok", "no_input"} THEN "none" ELSE out
           /\ pc' = CASE out = "ok" /\ direct -> "synthesizing"
                      [] out = "ok" /\ ~direct -> "collecting"
                      [] out = "no_input" -> "skipped"
                      [] out \in {"no_api_key", "empty_panel"} -> "rejected"
                      [] OTHER -> "raised"
           /\ messages' = IF out = "ok" /\ variant # 1
                          THEN Append(messages, Message("user", Absent, Question(q)))
                          ELSE messages
           /\ aliased' = (out = "ok" /\ variant # 4)
           /\ chatbot_experts' = IF out = "ok" /\ variant = 4 THEN experts ELSE <<>>
           /\ tasks' = IF out = "ok" THEN make_tasks(experts) ELSE <<>>
           /\ calls' = IF out = "ok" THEN start_calls(variant, n) ELSE <<>>
           /\ results' = IF out = "ok" THEN [i \in 1..n |-> NoResponse] ELSE <<>>
           /\ summary_call' = IF direct THEN "outstanding" ELSE "none"
           /\ nInvoke' = IF out = "ok"
                         THEN Cardinality(Outstanding(start_calls(variant, n)))
                              + (IF direct THEN 1 ELSE 0)
                         ELSE 0
           /\ nReq' = IF out = "ok" THEN nReq + 1 ELSE nReq
    /\ expert_opinions' = <<>>
    /\ formatted_opinions' = <<>>
    /\ final_response' = NoResponse
    /\ progress' = <<>>
    /\ UNCHANGED <<variant, experts, last_import, last_edit, nMut, config_vars>>

Min(a, b) == IF a < b THEN a ELSE b

\* dict(zip(ks, vs)): pairs up to the shorter of the two.
dict_zip(ks, vs) ==
    [i \in 1..Min(Len(ks), Len(vs)) |-> [id |-> ks[i], opinion |-> vs[i]]]

\* A wait that returns at the first completed task
\* (asyncio.wait(..., return_when=FIRST_COMPLETED)).
gather_done_first_completed(c) == \E i \in 1..Len(c) : c[i] = "ok"

\* await asyncio.gather(*tasks) returns once every task has returned.
gather_done(c) == \A i \in 1..Len(c) : c[i] = "ok"

\* Results taken as they complete (asyncio.as_completed).
gather_results_as_completed(tsk, res, completion) ==
    [k \in 1..Len(completion) |->
        res[CHOOSE i \in 1..Len(tsk) : tsk[i].id = completion[k]]]

\* asyncio.gather returns the results in the order of the tasks it was given,
\* not in the order they completed (`completion`).
gather_results(tsk, res, completion) == res

\* ---- chatbot3: the calls run concurrently
get_expert_opinion_returns(i) ==
    /\ variant = 3
    /\ pc = "collecting"
    /\ i \in Outstanding(calls)
    /\ calls' = [calls EXCEPT ![i] = "ok"]
    /\ results' = [results EXCEPT ![i] = Opinion(tasks[i].id, tasks[i].desc)]
    /\ progress' = Append(progress, tasks[i].id)
    /\ UNCHANGED <<variant, experts, messages, pc, error, question, aliased,
                   chatbot_experts, tasks, expert_opinions, formatted_opinions,
                   summary_call, final_response, nInvoke, reqExperts,
                   last_import, last_edit, nReq,
                   nMut, config_vars>>

get_expert_opinion_raises(i) ==
    /\ variant = 3
    /\ pc = "collecting"
    /\ i \in Outstanding(calls)
    /\ calls' = [calls EXCEPT ![i] = "failed"]
    /\ UNCHANGED <<variant, experts, messages, pc, error, question, aliased,
                   chatbot_experts, tasks, results, expert_opinions,
                   formatted_opinions, summary_call, final_response, progress,
                   nInvoke, reqExperts, last_import, last_edit, nReq,
                   nMut, config_vars>>

\* The awaiting coroutine resumes with the results, zips them with the keys
\* self.experts has now, formats them and starts the synthesis call.
gather_returns ==
    /\ variant = 3
    /\ pc = "collecting"
    /\ gather_done(calls)
    /\ LET opinions == gather_results(tasks, results, progress)
           eo == dict_zip(keys(SelfExperts), opinions)
       IN  /\ expert_opinions' = eo
           /\ formatted_opinions' = format_opinions(eo)
    /\ summary_call' = "outstanding"
    /\ nInvoke' = nInvoke + 1
    /\ pc' = "synthesizing"
    /\ UNCHANGED <<variant, experts, messages, error, question, aliased,
                   chatbot_experts, tasks, calls, results, final_response,
                   progress, reqExperts, last_import, last_edit, nReq,
                   nMut, config_vars>>

\* gather (return_exceptions is not set) raises the first exception of a task
\* into the awaiting coroutine, nothing catches it, and asyncio.run cancels
\* the tasks that are still running.
gather_raises ==
    /\ variant = 3
    /\ pc = "collecting"
    /\ \E i \in 1..Len(calls) : calls[i] = "failed"
    /\ calls' = [i \in 1..Len(calls) |->
                    IF calls[i] = "outstanding" THEN "cancelled" ELSE calls[i]]
    /\ pc' = "raised"
    /\ error' = "expert_invoker_error"
    /\ UNCHANGED <<variant, experts, messages, question, aliased,
                   chatbot_experts, tasks, results, expert_opinions,
                   formatted_opinions, summary_call, final_response, progress,
                   nInvoke, reqExperts, last_import, last_edit, nReq,
                   nMut, config_vars>>

\* ---- chatbot.py and chatbot4: the loop awaits one call at a time
loop_opinion_returns(i) ==
    /\ variant \in {1, 4}
    /\ pc = "collecting"
    /\ i \in Outstanding(calls)
    /\ LET opinion == Opinion(tasks[i].id, tasks[i].desc)
           eo == Append(expert_opinions, [id |-> tasks[i].id, opinion |-> opinion])
           last == i = Len(tasks)
       IN  /\ results' = [results EXCEPT ![i] = opinion]
           /\ expert_opinions' = eo
           /\ progress' = IF variant = 4 THEN Append(progress, tasks[i].id)
                          ELSE progress
           /\ messages' = IF variant = 4
                          THEN Append(messages, Message("expert", tasks[i].id, opinion))
                          ELSE messages
           /\ calls' = [k \in 1..Len(calls) |->
                           IF k = i THEN "ok"
                           ELSE IF k = i + 1 THEN "outstanding" ELSE calls[k]]
           /\ nInvoke' = nInvoke + 1
           /\ formatted_opinions' = IF last THEN format_opinions(eo)
                                    ELSE formatted_opinions
           /\ summary_call' = IF last THEN "outstanding" ELSE summary_call
           /\ pc' = IF last THEN "synthesizing" ELSE pc
    /\ UNCHANGED <<variant, experts, error, question, aliased, chatbot_experts,
                   tasks, final_response, reqExperts, last_import, last_edit, nReq,
                   nMut, config_vars>>

loop_opinion_raises(i) ==
    /\ variant \in {1, 4}
    /\ pc = "collecting"
    /\ i \in Outstanding(calls)
    /\ calls' = [calls EXCEPT ![i] = "failed"]
    /\ pc' = "raised"
    /\ error' = "expert_invoker_error"
    /\ UNCHANGED <<variant, experts, messages, question, aliased,
                   chatbot_experts, tasks, results, expert_opinions,
                   formatted_opinions, summary_call, final_response, progress,
                   nInvoke, reqExperts, last_import, last_edit, nReq,
                   nMut, config_vars>>

\* ---- the synthesis call
\* A synthesis step that catches the failure and answers with a degraded
\* text.
summary_outcome_degraded(ok, q, block) ==
    [raised |-> FALSE,
     text |-> IF ok THEN Summary(q, block) ELSE Summary(q, <<>>)]

\* final_response = await self.summary_chain.arun(...): the text, or the
\* exception, which nothing catches.
summary_outcome(ok, q, block) ==
    IF ok THEN [raised |-> FALSE, text |-> Summary(q, block)]
    ELSE [raised |-> TRUE, text |-> NoResponse]

summary_chain_completes(ok) ==
    /\ pc = "synthesizing"
    /\ summary_call = "outstanding"
    /\ summary_call' = IF ok THEN "ok" ELSE "failed"
    /\ LET out == summary_outcome(ok, question, formatted_opinions)
       IN  /\ final_response' = out.text
           /\ pc' = IF out.raised THEN "raised" ELSE "done"
           /\ error' = IF out.raised THEN "synthesis_invoker_error" ELSE error
           /\ messages' =
                IF out.raised \/ variant = 1 THEN messages
                ELSE Append(messages,
                            Message(IF variant = 4 THEN "summary" ELSE "assistant",
                                    Absent, out.text))
    /\ UNCHANGED <<variant, experts, question, aliased, chatbot_experts, tasks,
                   calls, results, expert_opinions, formatted_opinions, progress,
                   nInvoke, reqExperts, last_import, last_edit, nReq,
                   nMut, config_vars>>

\* ------------------------------------------------------- specifications
\* The steps of a request whose expert calls run concurrently (chatbot3).
Request ==
    \/ \E key \in BOOLEAN, q \in Questions : ask(key, q)
    \/ \E i \in 1..NumIds : get_expert_opinion_returns(i)
    \/ \E i \in 1..NumIds : get_expert_opinion_raises(i)
    \/ gather_returns
    \/ gather_raises
    \/ \E ok \in BOOLEAN : summary_chain_completes(ok)

\* The steps of the loop that awaits one call at a time (chatbot.py, chatbot4).
Loop ==
    \/ \E i \in 1..NumIds : loop_opinion_returns(i)
    \/ \E i \in 1..NumIds : loop_opinion_raises(i)

\* A run of main is one thread of control: expert_manager() has returned
\* before the chat input is handled, so the registry is edited between
\* requests.
Next ==
    \/ Request
    \/ Loop
    \/ ~InFlight /\ Edit

Spec == Init /\ [][Next]_vars

\* The registry dict is handed to the chatbot by reference and the request
\* suspends at every model call: here its owner edits it meanwhile.
InitShared == Init /\ variant = 3

NextShared ==
    \/ Request
    \/ Edit

SpecShared == InitShared /\ [][NextShared]_vars

\* chatbot4 with its model settings edited between requests.
InitConfig == Init /\ variant = 4

NextConfig ==
    \/ \E key \in BOOLEAN, q \in Questions : ask(key, q)
    \/ Loop
    \/ \E ok \in BOOLEAN : summary_chain_completes(ok)
    \/ ConfigEdit

SpecConfig == InitConfig /\ [][NextConfig]_vars

\* The registry on its own: expert_manager does not read anything a request
\* leaves behind, so its buttons are pressed here with no request made.
InitRegistry == Init /\ variant \in {3, 4}

NextRegistry ==
    \/ Edit
    \/ expert_manager_export_import

SpecRegistry == InitRegistry /\ [][NextRegistry]_vars

\* ------------------------------------------------------------ properties
\* What the request's result should be for a registry: every expert, in
\* registry order, with the text of its own call.
ExpectedOpinions(reg) ==
    [i \in 1..Len(reg) |->
        [id |-> reg[i].id, opinion |-> Opinion(reg[i].id, reg[i].description)]]

\* The collection has returned: the synthesis call has been started.
Collected == summary_call # "none"

\* The request has ended after it started model calls.
Ended == pc \in {"done", "raised"} /\ nInvoke > 0

Placeholder == [kind |-> "placeholder"]

\* A snapshot is structurally valid when it is JSON and every value has its
\* description, and that a string.
valid_snapshot(file) ==
    /\ file.parses
    /\ \A k \in 1..Len(file.pairs) :
            file.pairs[k].description \notin {Absent, WrongType}

\* C1: in chatbot3, once the collection (gather, then zip with the keys) has
\* returned, the result holds exactly one opinion per expert of the registry
\* the request was made on, each under its own id, in registration order,
\* whatever the order in which the calls completed.
C1_RegistrationOrder ==
    (variant = 3 /\ Collected) => expert_opinions = ExpectedOpinions(reqExperts)

\* C1 witness: a chatbot3 collection has returned in registration order although
\* the calls completed in another order.
C1_Witness ==
    /\ variant = 3
    /\ Collected
    /\ Len(reqExperts) >= 2
    /\ Len(progress) = Len(reqExperts)
    /\ progress # keys(reqExperts)
    /\ expert_opinions = ExpectedOpinions(reqExperts)

\* C2: in chatbot3 and chatbot4, when the call of some expert has failed, the
\* request does not end raised by it: no other call is abandoned, the result
\* has an entry for every expert, and the synthesis call is started.
C2_FailedExpertIsolated ==
    (variant \in {3, 4} /\ Ended /\ \E i \in 1..Len(calls) : calls[i] = "failed") =>
        /\ error # "expert_invoker_error"
        /\ \A i \in 1..Len(calls) : calls[i] # "cancelled"
        /\ Len(expert_opinions) = Len(tasks)
        /\ Collected

\* C3: a chatbot3 request that completes maps exactly the experts the registry
\* held when the request started, each to its own opinion, in the order they
\* had then, also when the registry was edited while calls were outstanding.
C3_SnapshotFixed ==
    (variant = 3 /\ pc = "done") => expert_opinions = ExpectedOpinions(reqExperts)

\* C4: once the synthesis call has been started, no expert call of the request
\* is outstanding or still to be made, every one has returned, and the block
\* handed to the synthesis holds the text of every one of them.
C4_TwoPhase ==
    Collected =>
        /\ \A i \in 1..Len(calls) : calls[i] = "ok"
        /\ Len(calls) = Len(reqExperts)
        /\ Len(formatted_opinions) = Len(calls)
        /\ \A i \in 1..Len(calls) :
                /\ results[i] # NoResponse
                /\ formatted_opinions[i].body = results[i]

\* C4 witness: the synthesis call is outstanding for a panel of two or more.
C4_Witness ==
    /\ summary_call = "outstanding"
    /\ Len(reqExperts) >= 2
    /\ \A i \in 1..Len(calls) : calls[i] = "ok"

\* C5: a request made on an empty registry starts no model call, neither an
\* expert call nor the synthesis call; when the run gets as far as the
\* registry check (a question was entered, the API key is set, rendering
\* raised nothing) it is rejected with the empty panel error.
C5_EmptyPanelRejected ==
    (pc # "idle" /\ reqExperts = <<>>) =>
        /\ nInvoke = 0
        /\ tasks = <<>>
        /\ summary_call = "none"
        /\ (question # "" /\ error \notin {"no_api_key", "render_error",
                                           "transcript_key_error"})
              => (pc = "rejected" /\ error = "empty_panel")

\* C5 witness: a request on an empty registry was rejected with the empty panel
\* error and no call.
C5_Witness ==
    /\ pc = "rejected"
    /\ error = "empty_panel"
    /\ reqExperts = <<>>
    /\ nInvoke = 0

\* C6: a request with an empty question fails with an empty question error and
\* makes no model call.
C6_EmptyQuestionRejected ==
    (pc # "idle" /\ question = "") =>
        /\ nInvoke = 0
        /\ error = "empty_question"

\* C7: the import of a structurally invalid snapshot (not JSON, a value without
\* its description, a description of the wrong type) reports an error and
\* leaves the registry as it was.
C7_InvalidImportRejected ==
    (last_import.status # "none" /\ ~valid_snapshot(last_import.file)) =>
        /\ last_import.status = "error"
        /\ ~last_import.changed

\* C8: when the synthesis call has failed, the request has ended with that
\* failure raised to its caller, it has no final text, and no synthesized
\* message was added to the transcript for it.
C8_SynthesisFailureFatal ==
    summary_call = "failed" =>
        /\ pc = "raised"
        /\ error = "synthesis_invoker_error"
        /\ final_response = NoResponse
        /\ messages # <<>> =>
              messages[Len(messages)].role \notin {"assistant", "summary"}

\* C8 witness: a chatbot4 synthesis call failed after the experts' messages were
\* recorded.
C8_Witness ==
    /\ summary_call = "failed"
    /\ variant = 4
    /\ Len(messages) >= 2
    /\ messages[Len(messages)].role = "expert"

\* C9: in chatbot3 and chatbot4, the block handed to the synthesis call of a
\* request that has ended has one entry for every expert of the registry the
\* request was made on, in registration order, headed by the expert's
\* uppercased id; the entry of an expert whose call failed is a placeholder,
\* that of any other is its text.
C9_BlockComplete ==
    (variant \in {3, 4} /\ Ended) =>
        /\ Len(formatted_opinions) = Len(reqExperts)
        /\ \A i \in 1..Len(formatted_opinions) :
                /\ formatted_opinions[i].head = upper(reqExperts[i].id)
                /\ formatted_opinions[i].body =
                      IF calls[i] = "failed" THEN Placeholder
                      ELSE Opinion(reqExperts[i].id, reqExperts[i].description)

Notified(id) == Cardinality({k \in 1..Len(progress) : progress[k] = id})

\* C11: in chatbot3 and chatbot4 the progress placeholder has been written
\* exactly once for every expert whose call has completed, returned or failed,
\* not at all for any other, and for all of them once the synthesis call has
\* been started.
C11_NotifiedOnCompletion ==
    variant \in {3, 4} =>
        /\ \A i \in 1..Len(calls) :
              Notified(tasks[i].id) =
                  IF calls[i] \in {"ok", "failed"} THEN 1 ELSE 0
        /\ Collected => Len(progress) = Len(tasks)

\* C12: a press of the add button with an id the registry already holds
\* leaves the registry as it was; with a new id it appends the expert after
\* all the others and changes none of them.
C12_DuplicateAddRejected ==
    [][(nMut' = nMut + 1 /\ last_edit'.op = "add") =>
          IF HasKey(experts, last_edit'.id)
          THEN experts' = experts
          ELSE /\ Len(experts') = Len(experts) + 1
               /\ SubSeq(experts', 1, Len(experts)) = experts
               /\ experts'[Len(experts')].id = last_edit'.id]_vars

\* A model settings file the import should accept: JSON with both keys and a
\* temperature that is a number between the slider's limits.
valid_config(file) ==
    /\ file.parses
    /\ has_both_keys(file.config)
    /\ slider_accepts(file.config.temperature)

\* C13: in chatbot4 the import of a model settings file that lacks a key or
\* whose temperature is no number between 0.0 and 2.0 reports an error and
\* leaves the settings as they were; and the settings a request runs with have
\* a temperature in that range and a supported model name.
C13_InvalidConfigRejected ==
    /\ (last_config_import.status # "none"
            /\ ~valid_config(last_config_import.file)) =>
          /\ last_config_import.status \in {"error", "invalid"}
          /\ ~last_config_import.changed
    /\ (variant = 4 /\ InFlight) =>
          /\ slider_accepts(model_config.temperature)
          /\ model_config.model_name \in Elems(AvailableModels)

Others(reg, id) == SelectSeq(reg, LAMBDA e : e.id # id)

C16_EachCalledOnce ==
    (variant \in {3, 4} /\ Ended) =>
        /\ nInvoke = Len(reqExperts) + 1
        /\ Len(calls) = Len(reqExperts)
        /\ \A i \in 1..Len(calls) : calls[i] \in {"ok", "failed"}
        /\ summary_call \in {"ok", "failed"}
        /\ pc = "done" => expert_opinions = ExpectedOpinions(reqExperts)

\* C17: in chatbot4 every expert message of the transcript names an expert the
\* registry holds, and no run has raised on looking one up.
C17_TranscriptExpertsRegistered ==
    variant = 4 =>
        /\ \A k \in 1..Len(messages) :
              messages[k].role = "expert" => HasKey(experts, messages[k].expert_id)
        /\ error # "transcript_key_error"

====
